---- MODULE Spec2Model ----
(***************************************************************************)
(* Model of yandexcloud/_operation_waiter.py: the OperationWaiter class    *)
(* (construction, the operation and done properties, __next__) and the     *)
(* wait_for_operation driver built on it.                                  *)
(*                                                                         *)
(* The status client and the clock are the environment: every fetch picks  *)
(* its outcome (a snapshot, None, or a transport error) and the time it    *)
(* took, and the clock only moves forward.                                 *)
(***************************************************************************)
EXTENDS Integers, Sequences, FiniteSets

(* ---- bounds of the model ---- *)
MaxClock == 3        \* the clock runs over 0..MaxClock
MaxPolls == 2        \* __next__ calls the caller makes itself in one behaviour

(* ---- Python values ---- *)
\* None is the empty tuple, any other value x is <<x>>.
None == <<>>
Some(x) == <<x>>

\* time.sleep(1) of wait_for_operation
SleepSeconds == 1

OperationIds == {"op1", "op2"}

\* What the status client's Get can return: an Operation message, or None.
\* The payload (result or error) is opaque to the waiter.
Payloads == {"p1", "p2"}
Snapshots == [done : BOOLEAN, payload : Payloads]
GetValues == {None} \cup {Some(s) : s \in Snapshots}
\* A fetch either returns a value or raises a transport error of the RPC layer.
Errors == {"UNAVAILABLE", "INTERNAL"}
Raised(e) == [raised |-> TRUE, value |-> Some(e)]
Returned(v) == [raised |-> FALSE, value |-> v]
FetchOutcomes == {Raised(e) : e \in Errors} \cup {Returned(v) : v \in GetValues}

\* A fetch returns within the same clock unit or takes one.
FetchDelays == {0, 1}

\* timeout arguments: None, 0, a positive or a negative number
Timeouts == {None} \cup {Some(t) : t \in {-1, 0, 1, 2}}

\* the waiter a caller makes and polls itself; wait_for_operation's two
\* waiters are named after its locals, "waiter" and "iter"
DirectWaiters == {"a"}

VARIABLES
    now,        \* the clock (time.time())
    waiters,    \* the constructed OperationWaiter objects, by name
    ctor,       \* for each constructed waiter, the arguments and clock of its construction
    calls,      \* every __next__ call so far, in order: the requests it sent, what it
                \* fetched, when the fetch started and ended, the clock it read, how
                \* it ended and what the operation property read after it
    pc,         \* position of wait_for_operation: "idle" before the call
    args,       \* the arguments of the wait_for_operation call
    trace,      \* what wait_for_operation did so far: "poll", "write", "flush", "sleep"
    ret,        \* how wait_for_operation ended: its return value or the error it raised
    seen        \* what the caller's latest read of a waiter's operation property gave

vars == <<now, waiters, ctor, calls, pc, args, trace, ret, seen>>

(* ---- OperationWaiter ---- *)

\* (mutant) the timeout tested with `> 0`
TruthyPositive(timeout) == timeout # None /\ timeout[1] > 0

\* (mutant) the timeout tested with `is not None`
TruthyNotNone(timeout) == timeout # None

\* Python truthiness of the timeout argument: None and 0 are falsy.
Truthy(timeout) == timeout # None /\ timeout[1] # 0

\* (mutant) the deadline is the timeout itself, the clock left out
DeadlineWithoutNow(timeout, clock) ==
    IF Truthy(timeout) THEN Some(timeout[1]) ELSE None

\* self.__deadline = time.time() + timeout if timeout else None
Deadline(timeout, clock) ==
    IF Truthy(timeout) THEN Some(clock + timeout[1]) ELSE None

\* OperationWaiter.__init__
OperationWaiter(operation_id, timeout, clock) ==
    [operation |-> None,
     operation_id |-> operation_id,
     deadline |-> Deadline(timeout, clock)]

\* the operation property
operation(self) == self.operation

\* (mutant) only the first fetched value is stored
DoneStoreOnce(self, fetched) ==
    IF self.operation = None THEN [self EXCEPT !.operation = fetched] ELSE self

\* (mutant) a fetch also drops the deadline
DoneStoreDroppingDeadline(self, fetched) ==
    [self EXCEPT !.operation = fetched, !.deadline = None]

\* the done property, first line: the fetched value is stored
DoneStore(self, fetched) == [self EXCEPT !.operation = fetched]

\* (mutant) any stored snapshot counts as done
doneWhenSet(self) == self.operation # None

\* the done property, second line: its value, read from the stored snapshot
done(self) == self.operation # None /\ self.operation[1].done

\* __next__ reads the clock only when done is false (the `or` short-circuits)
ReadsClock(self) == ~done(self)

\* (mutant) the deadline is never looked at
StopsOnDoneOnly(self, clock) == done(self)

\* (mutant) the deadline compared with > instead of >=
StopsStrictlyAfter(self, clock) ==
    done(self) \/ (self.deadline # None /\ clock > self.deadline[1])

\* __next__: the condition of `raise StopIteration()`, on the waiter after the
\* fetch and with the clock reading taken after it
Stops(self, clock) ==
    done(self) \/ (self.deadline # None /\ clock >= self.deadline[1])

\* (mutant) a failed Get resets the stored snapshot
AfterFetchClearing(self, o) ==
    IF o.raised THEN [self EXCEPT !.operation = None]
    ELSE [self EXCEPT !.operation = o.value]

\* The waiter after the first line of done, whose Get ended in outcome o: an
\* exception leaves the assignment undone.
AfterFetch(self, o) == IF o.raised THEN self ELSE DoneStore(self, o.value)

\* How a __next__ call ends when its fetch ended in outcome o and the clock
\* reads `clock` after it: the error of the fetch propagates, StopIteration is
\* raised, or None is returned.
Outcome(self, o, clock) ==
    IF o.raised THEN "TransportError"
    ELSE IF Stops(AfterFetch(self, o), clock) THEN "StopIteration"
    ELSE "None"

\* (mutant) the clock is read before the fetch is issued
ReadClockBeforeFetch(start, d) == start

\* The time.time() of __next__ is evaluated after self.done, that is after the
\* Get that started at `start` and took d has returned.
ReadClock(start, d) == start + d

\* (mutant) done is evaluated twice in a call
GetsTwice(self, o) == <<self.operation_id, self.operation_id>>

\* (mutant) a failed Get is tried a second time
GetsWithRetry(self, o) ==
    IF o.raised THEN <<self.operation_id, self.operation_id>>
    ELSE <<self.operation_id>>

\* The Get requests one __next__ call sends, by their operation_id: done is
\* evaluated once and sends one GetOperationRequest.
Gets(self, o) == <<self.operation_id>>

\* (mutant) the snapshot is an attribute of the class, shared by the instances
StoreShared(ws, w, after) ==
    [x \in DOMAIN ws |->
        IF x = w THEN after ELSE [ws[x] EXCEPT !.operation = after.operation]]

\* self.__operation is an attribute of the instance: what a call stores goes
\* into its own waiter
Store(ws, w, after) == [ws EXCEPT ![w] = after]

\* One __next__ call on waiter w: the fetch takes d and ends in outcome o.
NextCall(w, o, d) ==
    LET self == waiters[w]
        after == AfterFetch(self, o)
        clock == ReadClock(now, d)
    IN  /\ now + d <= MaxClock
        /\ now' = now + d
        /\ waiters' = Store(waiters, w, after)
        /\ calls' = Append(calls,
                [w |-> w, id |-> self.operation_id, start |-> now, fetch |-> o,
                 gets |-> Gets(self, o), end |-> now + d,
                 clock |-> IF ~o.raised /\ ReadsClock(after) THEN Some(clock) ELSE None,
                 out |-> Outcome(self, o, clock),
                 snapshot |-> operation(after),
                 error |-> IF o.raised THEN o.value ELSE None])

\* The constructor, called by operation_waiter or by the caller.
Construct(w, operation_id, timeout) ==
    /\ waiters' = [x \in (DOMAIN waiters) \cup {w} |->
                     IF x = w THEN OperationWaiter(operation_id, timeout, now)
                     ELSE waiters[x]]
    /\ ctor' = [x \in (DOMAIN ctor) \cup {w} |->
                     IF x = w THEN [operation_id |-> operation_id,
                                    timeout |-> timeout, clock |-> now]
                     ELSE ctor[x]]

(* ---- the caller using a waiter directly ---- *)

\* operation_waiter(sdk, operation_id, timeout), called by the caller
NewWaiter(w, operation_id, timeout) ==
    /\ pc = "idle"
    /\ w \notin DOMAIN waiters
    /\ Construct(w, operation_id, timeout)
    /\ UNCHANGED <<now, calls, pc, args, trace, ret, seen>>

\* next(w), called by the caller
Poll(w, o, d) ==
    /\ pc = "idle"
    /\ w \in DOMAIN waiters
    /\ Len(calls) < MaxPolls
    /\ NextCall(w, o, d)
    /\ UNCHANGED <<ctor, pc, args, trace, ret, seen>>

\* (mutant) the accessor refreshes the snapshot as done does; the refresh is
\* taken to find the operation gone
AfterReadRefreshing(self) == [self EXCEPT !.operation = None]

\* The waiter after a read of its operation property: the getter returns the
\* field and assigns nothing.
AfterRead(self) == self

\* w.operation, read by the caller
ReadOperation(w) ==
    /\ pc = "idle"
    /\ w \in DOMAIN waiters
    /\ seen' = Some([w |-> w, value |-> operation(waiters[w])])
    /\ waiters' = [waiters EXCEPT ![w] = AfterRead(waiters[w])]
    /\ UNCHANGED <<now, ctor, calls, pc, args, trace, ret>>

(* ---- wait_for_operation ---- *)

\* line 13: waiter = operation_waiter(sdk, operation_id, timeout)
\* The call is synchronous: from here to its end the caller does nothing else.
\* A behaviour holds one use of the module, the caller's own waiter or one
\* wait_for_operation call.
WfoCall(operation_id, timeout, print_to_stream) ==
    /\ pc = "idle"
    /\ waiters = <<>>
    /\ Construct("waiter", operation_id, timeout)
    /\ args' = Some([operation_id |-> operation_id, timeout |-> timeout,
                     print_to_stream |-> print_to_stream])
    /\ pc' = "for"
    /\ UNCHANGED <<now, calls, trace, ret, seen>>

\* line 14: the iterable of the for loop, a second operation_waiter(...)
WfoFor ==
    /\ pc = "for"
    /\ Construct("iter", args[1].operation_id, args[1].timeout)
    /\ pc' = "next"
    /\ UNCHANGED <<now, calls, args, trace, ret, seen>>

\* (mutant) the marker is written whether or not a sink was given
AfterNextAlwaysWrites(out, print_to_stream) ==
    IF out = "TransportError" THEN "raised"
    ELSE IF out = "StopIteration" THEN "return"
    ELSE "write"

\* (mutant) a failed poll is swallowed and retried after the sleep
AfterNextRetries(out, print_to_stream) ==
    IF out = "StopIteration" THEN "return"
    ELSE IF out = "None" /\ print_to_stream THEN "write"
    ELSE "sleep"

\* (mutant) without a sink the loop polls again at once
AfterNextNoSleep(out, print_to_stream) ==
    IF out = "TransportError" THEN "raised"
    ELSE IF out = "StopIteration" THEN "return"
    ELSE IF print_to_stream THEN "write" ELSE "next"

\* where the for loop goes after a __next__ that ended in `out`
AfterNext(out, print_to_stream) ==
    IF out = "TransportError" THEN "raised"
    ELSE IF out = "StopIteration" THEN "return"
    ELSE IF print_to_stream THEN "write" ELSE "sleep"

\* line 14: the for loop calls __next__ on its iterable
WfoNext(o, d) ==
    /\ pc = "next"
    /\ NextCall("iter", o, d)
    /\ trace' = Append(trace, "poll")
    /\ pc' = AfterNext(Outcome(waiters["iter"], o, ReadClock(now, d)),
                       args[1].print_to_stream)
    /\ ret' = IF o.raised THEN [kind |-> "raise", value |-> o.value] ELSE ret
    /\ UNCHANGED <<ctor, args, seen>>

\* line 16: print_to_stream.write('.')
WfoWrite ==
    /\ pc = "write"
    /\ trace' = Append(trace, "write")
    /\ pc' = "flush"
    /\ UNCHANGED <<now, waiters, ctor, calls, args, ret, seen>>

\* line 17: print_to_stream.flush()
WfoFlush ==
    /\ pc = "flush"
    /\ trace' = Append(trace, "flush")
    /\ pc' = "sleep"
    /\ UNCHANGED <<now, waiters, ctor, calls, args, ret, seen>>

\* line 18: time.sleep(1)
WfoSleep ==
    /\ pc = "sleep"
    /\ now + SleepSeconds <= MaxClock
    /\ now' = now + SleepSeconds
    /\ trace' = Append(trace, "sleep")
    /\ pc' = "next"
    /\ UNCHANGED <<waiters, ctor, calls, args, ret, seen>>

\* the value of line 19's return expression
ReturnValue(ws) == operation(ws["waiter"])

\* line 19: return waiter.operation
WfoReturn ==
    /\ pc = "return"
    /\ ret' = [kind |-> "return", value |-> ReturnValue(waiters)]
    /\ waiters' = [waiters EXCEPT !["waiter"] = AfterRead(waiters["waiter"])]
    /\ pc' = "returned"
    /\ UNCHANGED <<now, ctor, calls, args, trace, seen>>

(* ---- the clock ---- *)

\* Time passes between the caller's statements. Inside wait_for_operation the
\* clock moves with the fetches and the sleeps.
Tick ==
    /\ pc = "idle"
    /\ now < MaxClock
    /\ now' = now + 1
    /\ UNCHANGED <<waiters, ctor, calls, pc, args, trace, ret, seen>>

(* ---- the specification ---- *)

Init ==
    /\ now = 0
    /\ waiters = <<>>
    /\ ctor = <<>>
    /\ calls = <<>>
    /\ pc = "idle"
    /\ args = None
    /\ trace = <<>>
    /\ ret = [kind |-> "running", value |-> None]
    /\ seen = None

Next ==
    \/ \E w \in DirectWaiters, i \in OperationIds, t \in Timeouts : NewWaiter(w, i, t)
    \/ \E w \in DirectWaiters, o \in FetchOutcomes, d \in FetchDelays : Poll(w, o, d)
    \/ \E i \in OperationIds, t \in Timeouts, s \in BOOLEAN : WfoCall(i, t, s)
    \/ WfoFor
    \/ \E o \in FetchOutcomes, d \in FetchDelays : WfoNext(o, d)
    \/ WfoWrite
    \/ WfoFlush
    \/ WfoSleep
    \/ WfoReturn
    \/ Tick

Spec == Init /\ [][Next]_vars

\* One step of a running wait_for_operation call.
WfoStep ==
    \/ WfoFor
    \/ \E o \in FetchOutcomes, d \in FetchDelays : WfoNext(o, d)
    \/ WfoWrite
    \/ WfoFlush
    \/ WfoSleep
    \/ WfoReturn

\* The caller that uses wait_for_operation only.
WfoNextStep ==
    \/ \E i \in OperationIds, t \in Timeouts, s \in BOOLEAN : WfoCall(i, t, s)
    \/ WfoStep
    \/ Tick

\* The caller that polls back to back and reads the operation property of its
\* waiter between the polls, or calls wait_for_operation: the clock moves with
\* the fetches and the sleeps only.
ReadNext ==
    \/ \E w \in DirectWaiters, i \in OperationIds, t \in Timeouts : NewWaiter(w, i, t)
    \/ \E w \in DirectWaiters, o \in FetchOutcomes, d \in FetchDelays : Poll(w, o, d)
    \/ \E w \in DirectWaiters : ReadOperation(w)
    \/ \E i \in OperationIds, t \in Timeouts, s \in BOOLEAN : WfoCall(i, t, s)
    \/ WfoStep

ReadSpec == Init /\ [][ReadNext]_vars

\* wait_for_operation is sequential code: once called it keeps running, every
\* Get it issues ends (in a value or an error) and every sleep ends.
FairSpec == Init /\ [][WfoNextStep]_vars /\ WF_vars(WfoStep)

(* ---- helpers of the properties ---- *)

\* the done flag of a value Get returned (None has none)
FetchedDone(v) == v # None /\ v[1].done

\* the __next__ calls made on waiter w, in order
CallsOf(w) == SelectSeq(calls, LAMBDA c : c.w = w)

Count(seq, x) == Cardinality({i \in 1..Len(seq) : seq[i] = x})

\* the deadline the constructor's arguments call for: now + timeout
CtorDeadline(w) == ctor[w].clock + ctor[w].timeout[1]

(* ---- C1 ---- *)

\* C1 (as claimed): when wait_for_operation has returned, the value it returned
\* is the snapshot fetched by the last poll of its loop.
C1_ReturnsFinalSnapshot ==
    pc = "returned" => ret.value = calls[Len(calls)].fetch.value

(* ---- C2 ---- *)

\* C2: a __next__ call whose fetch succeeded raised StopIteration exactly when
\* the fetched snapshot has done = true, or the waiter has a deadline and the
\* clock reading of that call is at or past it; otherwise it returned None.
C2_FinishedIff ==
    \A i \in 1..Len(calls) :
        LET c == calls[i]
            cond == \/ FetchedDone(c.fetch.value)
                    \/ /\ waiters[c.w].deadline # None
                       /\ c.clock # None
                       /\ c.clock[1] >= waiters[c.w].deadline[1]
        IN  ~c.fetch.raised =>
                /\ c.out \in {"StopIteration", "None"}
                /\ (c.out = "StopIteration") <=> cond

\* C2 witness: one call finished on the deadline alone, at the very clock unit
\* of the deadline, and another call on the same waiter returned None.
C2_Witness ==
    \E i, j \in 1..Len(calls) :
        /\ calls[i].w = calls[j].w
        /\ calls[i].out = "None"
        /\ calls[j].out = "StopIteration"
        /\ ~FetchedDone(calls[j].fetch.value)
        /\ calls[j].clock = waiters[calls[j].w].deadline

(* ---- C3 ---- *)

\* the first k calls on a waiter all fetched without error, not done on the
\* first k-1 of them and done on the k-th
DoneFirstAt(cs, k) ==
    \A j \in 1..k :
        /\ ~cs[j].fetch.raised
        /\ FetchedDone(cs[j].fetch.value) <=> (j = k)

\* C3 (as claimed): for every timeout, if the fetches 1..k-1 of a waiter return
\* done = false and the k-th returns done = true, the k-th __next__ call is
\* the first one to raise StopIteration.
C3_FinishedExactlyAtK ==
    \A w \in DOMAIN waiters :
        LET cs == CallsOf(w)
        IN  \A k \in 1..Len(cs) :
                DoneFirstAt(cs, k) =>
                    /\ cs[k].out = "StopIteration"
                    /\ \A j \in 1..(k - 1) : cs[j].out # "StopIteration"

\* C3 (amended): under the same premise the k-th call raises StopIteration, and
\* an earlier call does so only when the waiter has a deadline and the clock
\* reading of that call is at or past it; a waiter without a deadline finishes
\* exactly at the k-th call.
C3_FinishedAtKOrDeadline ==
    \A w \in DOMAIN waiters :
        LET cs == CallsOf(w)
        IN  \A k \in 1..Len(cs) :
                DoneFirstAt(cs, k) =>
                    /\ cs[k].out = "StopIteration"
                    /\ \A j \in 1..(k - 1) :
                          \/ cs[j].out = "None"
                          \/ /\ cs[j].out = "StopIteration"
                             /\ waiters[w].deadline # None
                             /\ cs[j].clock[1] >= waiters[w].deadline[1]

\* C3 witness: a waiter finished at its third call, on done = true, after two
\* calls that returned None.
C3_Witness ==
    \E w \in DOMAIN waiters :
        LET cs == CallsOf(w)
        IN  /\ Len(cs) >= 3
            /\ DoneFirstAt(cs, Len(cs))
            /\ cs[Len(cs)].out = "StopIteration"
            /\ \A j \in 1..(Len(cs) - 1) : cs[j].out = "None"

(* ---- C4 ---- *)

\* the first k calls on a waiter all fetched a snapshot with done = false
NeverDoneUpTo(cs, k) ==
    \A j \in 1..k :
        /\ ~cs[j].fetch.raised
        /\ cs[j].fetch.value # None
        /\ ~cs[j].fetch.value[1].done

\* C4: for a waiter constructed at T0 with a timeout t > 0 whose fetches all
\* return done = false, a call whose clock reading is before T0 + t returns
\* None, and a call whose clock reading is at or after T0 + t raises
\* StopIteration and leaves a snapshot with done = false.
C4_TimeoutPath ==
    \A w \in DOMAIN waiters :
        LET cs == CallsOf(w)
        IN  (ctor[w].timeout # None /\ ctor[w].timeout[1] > 0) =>
                \A k \in 1..Len(cs) :
                    NeverDoneUpTo(cs, k) =>
                        /\ cs[k].clock # None
                        /\ cs[k].clock[1] < CtorDeadline(w) => cs[k].out = "None"
                        /\ cs[k].clock[1] >= CtorDeadline(w) =>
                              /\ cs[k].out = "StopIteration"
                              /\ cs[k].snapshot # None
                              /\ ~cs[k].snapshot[1].done

\* C4 witness: a waiter made after the clock had moved, with a positive
\* timeout, returned None before its deadline and raised StopIteration at it,
\* never having fetched done = true.
C4_Witness ==
    \E w \in DOMAIN waiters :
        LET cs == CallsOf(w)
        IN  /\ ctor[w].timeout # None /\ ctor[w].timeout[1] > 0
            /\ ctor[w].clock > 0
            /\ Len(cs) >= 2
            /\ NeverDoneUpTo(cs, Len(cs))
            /\ cs[1].clock[1] < CtorDeadline(w)
            /\ cs[1].out = "None"
            /\ cs[Len(cs)].clock[1] = CtorDeadline(w)
            /\ cs[Len(cs)].out = "StopIteration"

(* ---- C5 ---- *)

\* C5: after every __next__ call whose fetch succeeded, the operation property
\* of the waiter is the value just fetched, however the call ended; and the
\* waiter's snapshot now is the value of its latest successful fetch.
C5_SnapshotIsLastFetched ==
    /\ \A i \in 1..Len(calls) :
          ~calls[i].fetch.raised => calls[i].snapshot = calls[i].fetch.value
    /\ \A w \in DOMAIN waiters :
          LET cs == CallsOf(w)
          IN  (Len(cs) > 0 /\ ~cs[Len(cs)].fetch.raised) =>
                  operation(waiters[w]) = cs[Len(cs)].fetch.value

\* C5 witness: a call finished on the deadline, not on done, and the snapshot
\* it fetched differs from the one the call before it had fetched.
C5_Witness ==
    \E w \in DOMAIN waiters :
        LET cs == CallsOf(w)
            n == Len(cs)
        IN  /\ n >= 2
            /\ ~cs[n].fetch.raised /\ ~cs[n - 1].fetch.raised
            /\ cs[n - 1].fetch.value # None
            /\ cs[n].fetch.value # None
            /\ cs[n].fetch.value # cs[n - 1].fetch.value
            /\ ~FetchedDone(cs[n].fetch.value)
            /\ cs[n].out = "StopIteration"
            /\ operation(waiters[w]) = cs[n].fetch.value

(* ---- C6 ---- *)

\* the step is a __next__ call whose fetch raised
FailedCallStep ==
    /\ Len(calls') = Len(calls) + 1
    /\ calls'[Len(calls')].fetch.raised

\* C6: a __next__ call whose fetch raises a transport error ends with that very
\* error and changes no waiter (snapshot, deadline and handle stay as they
\* were); and the call made on the waiter after a failed one is decided by
\* the deadline of the construction, now + timeout.
C6_FailedFetchLeavesWaiter ==
    /\ [][FailedCallStep =>
            /\ calls'[Len(calls')].out = "TransportError"
            /\ calls'[Len(calls')].error = calls'[Len(calls')].fetch.value
            /\ waiters' = waiters
            /\ ctor' = ctor]_vars
    /\ [](\A w \in DOMAIN waiters :
            LET cs == CallsOf(w)
                t == ctor[w].timeout
            IN  \A k \in 2..Len(cs) :
                    (/\ cs[k - 1].fetch.raised
                     /\ ~cs[k].fetch.raised
                     /\ ~FetchedDone(cs[k].fetch.value)) =>
                        ((cs[k].out = "StopIteration") <=>
                            (t # None /\ t[1] # 0 /\ cs[k].clock[1] >= CtorDeadline(w))))

\* C6 witness: a fetch failed on a waiter that has a deadline and a stored
\* snapshot, and the waiter still holds both.
C6_Witness ==
    \E w \in DOMAIN waiters :
        LET cs == CallsOf(w)
            n == Len(cs)
        IN  /\ n >= 2
            /\ ctor[w].timeout # None
            /\ ~cs[n - 1].fetch.raised
            /\ cs[n - 1].fetch.value # None
            /\ cs[n].fetch.raised
            /\ cs[n].out = "TransportError"
            /\ operation(waiters[w]) = cs[n - 1].fetch.value
            /\ waiters[w].deadline = Some(CtorDeadline(w))

(* ---- C7 ---- *)

\* C7 (as claimed): once a __next__ call on a waiter has raised StopIteration,
\* every later call on it whose fetch succeeds raises StopIteration too.
C7_DoneIsTerminal ==
    \A w \in DOMAIN waiters :
        LET cs == CallsOf(w)
        IN  \A i, j \in 1..Len(cs) :
                (i < j /\ cs[i].out = "StopIteration" /\ ~cs[j].fetch.raised) =>
                    cs[j].out = "StopIteration"

(* ---- C8 ---- *)

\* the polls of wait_for_operation's loop that returned None
NonTerminalPolls ==
    Cardinality({i \in 1..Len(calls) : calls[i].w = "iter" /\ calls[i].out = "None"})

\* C8: with a sink, wait_for_operation writes a marker right after a poll and
\* flushes right after the write, and when it returns it has written and
\* flushed one marker per non-terminal poll and none after the terminal poll;
\* without a sink it writes and flushes nothing.
C8_ProgressMarkers ==
    pc # "idle" =>
        /\ \A i \in 1..Len(trace) :
              /\ trace[i] = "write" =>
                    /\ i > 1 /\ trace[i - 1] = "poll"
                    /\ i < Len(trace) => trace[i + 1] = "flush"
              /\ trace[i] = "flush" => (i > 1 /\ trace[i - 1] = "write")
        /\ ~args[1].print_to_stream =>
              (Count(trace, "write") = 0 /\ Count(trace, "flush") = 0)
        /\ (args[1].print_to_stream /\ pc \in {"return", "returned"}) =>
              /\ Count(trace, "write") = NonTerminalPolls
              /\ Count(trace, "flush") = NonTerminalPolls
              /\ trace[Len(trace)] = "poll"

\* C8 witness: wait_for_operation returned with a sink after two or more
\* non-terminal polls.
C8_Witness ==
    /\ pc = "returned"
    /\ args[1].print_to_stream
    /\ NonTerminalPolls >= 2
    /\ Count(trace, "write") = NonTerminalPolls

(* ---- C9 ---- *)

\* C9: a waiter made with timeout None or 0 has no deadline, and each of its
\* calls that fetches a value without done = true returns None, whatever the
\* clock reads; a waiter made with a positive timeout holds the deadline
\* construction-time now + timeout.
C9_NoDeadlineWithoutTimeout ==
    \A w \in DOMAIN waiters :
        LET cs == CallsOf(w)
            t == ctor[w].timeout
        IN  /\ (t = None \/ t = Some(0)) =>
                  /\ waiters[w].deadline = None
                  /\ \A k \in 1..Len(cs) :
                        (~cs[k].fetch.raised /\ ~FetchedDone(cs[k].fetch.value)) =>
                            cs[k].out = "None"
            /\ (t # None /\ t[1] > 0) =>
                  waiters[w].deadline = Some(ctor[w].clock + t[1])

\* C9 witness: a waiter made with timeout 0 has been polled three times, the
\* last time at the end of the clock's range, and never finished.
C9_Witness ==
    \E w \in DOMAIN waiters :
        LET cs == CallsOf(w)
        IN  /\ ctor[w].timeout = Some(0)
            /\ Len(cs) >= 3
            /\ \A k \in 1..Len(cs) : cs[k].out = "None"
            /\ cs[Len(cs)].clock = Some(MaxClock)

(* ---- C10 ---- *)

\* C10: when the fetch of a poll of wait_for_operation raises, the call ends
\* there with that error: it raised on its j-th fetch, the j-1 polls before
\* returned None, j-1 sleeps were made and j-1 markers written (none without a
\* sink), the failing poll is the last thing it did and nothing is returned.
C10_FetchFailurePropagates ==
    LET cs == CallsOf("iter")
        j == Len(cs)
    IN  /\ ret.kind = "raise" => pc = "raised"
        /\ (\E i \in 1..j : cs[i].fetch.raised) => pc = "raised"
        /\ pc = "raised" =>
              /\ ret.kind = "raise"
              /\ j >= 1
              /\ cs[j].fetch.raised
              /\ ret.value = cs[j].fetch.value
              /\ \A i \in 1..(j - 1) : cs[i].out = "None"
              /\ Len(calls) = j
              /\ Count(trace, "poll") = j
              /\ Count(trace, "sleep") = j - 1
              /\ Count(trace, "write") =
                    (IF args[1].print_to_stream THEN j - 1 ELSE 0)
              /\ trace[Len(trace)] = "poll"

\* C10 witness: wait_for_operation, given a sink, ended with the error of its
\* third fetch.
C10_Witness ==
    /\ pc = "raised"
    /\ args[1].print_to_stream
    /\ Len(CallsOf("iter")) >= 3
    /\ ret = [kind |-> "raise", value |-> Some("INTERNAL")]
    /\ Count(trace, "write") = 2

(* ---- C11 ---- *)

\* wait_for_operation has ended, by return or by an error
WfoEnded == pc \in {"returned", "raised"}

\* the loop's waiter exists and has a deadline the clock of the model can reach
WfoHasDeadline ==
    /\ "iter" \in DOMAIN waiters
    /\ waiters["iter"].deadline # None
    /\ waiters["iter"].deadline[1] <= MaxClock

\* every poll of the loop so far fetched without error a value that is not done
WfoNeverDone ==
    \A i \in 1..Len(calls) :
        ~calls[i].fetch.raised /\ ~FetchedDone(calls[i].fetch.value)

\* C11: a wait_for_operation call whose waiter has a deadline (within the
\* clock's range) eventually ends, whatever the fetches return; and a call
\* without a deadline whose fetches never report done and never fail has not
\* left its loop.
C11_DeadlineEndsPolling ==
    /\ [](WfoHasDeadline => <>WfoEnded)
    /\ []((/\ "iter" \in DOMAIN waiters
           /\ waiters["iter"].deadline = None
           /\ WfoNeverDone) => pc \notin {"return", "returned", "raised"})

\* C11 witness: wait_for_operation returned on a positive timeout after three
\* or more polls, none of which fetched done = true.
C11_Witness ==
    /\ pc = "returned"
    /\ args[1].timeout # None
    /\ args[1].timeout[1] > 0
    /\ WfoNeverDone
    /\ Len(calls) >= 3

(* ---- C12 ---- *)

C13_OneFetchPerPoll ==
    \A i \in 1..Len(calls) :
        /\ Len(calls[i].gets) = 1
        /\ calls[i].gets[1] = ctor[calls[i].w].operation_id

\* C13 witness: a call made on a waiter after its deadline had passed and after
\* an earlier call had raised StopIteration; and a call whose fetch failed.
C13_Witness ==
    \E i, j \in 1..Len(calls) :
        LET dl == waiters[calls[j].w].deadline
        IN  /\ i < j
            /\ calls[i].w = calls[j].w
            /\ calls[i].out = "StopIteration"
            /\ dl # None
            /\ calls[j].start > dl[1]
            /\ calls[j].fetch.raised
            /\ Len(calls[j].gets) = 1

(* ---- C14 ---- *)

\* C14: no step (a call that returns None, raises StopIteration or fails, a
\* read of the operation property) changes the operation_id or the deadline
\* of a waiter; both are those of the construction, and every Get a call
\* sends carries the constructor's operation_id.
C14_HandleAndDeadlineFixed ==
    /\ [][\A w \in DOMAIN waiters :
            /\ waiters'[w].operation_id = waiters[w].operation_id
            /\ waiters'[w].deadline = waiters[w].deadline]_vars
    /\ [](\A w \in DOMAIN waiters :
            /\ waiters[w].operation_id = ctor[w].operation_id
            /\ waiters[w].deadline # None =>
                  waiters[w].deadline = Some(CtorDeadline(w)))
    /\ [](\A i \in 1..Len(calls) :
            \A k \in 1..Len(calls[i].gets) :
                calls[i].gets[k] = ctor[calls[i].w].operation_id)

\* C14 witness: a waiter with a deadline was polled twice, one of the fetches
\* failing, and its operation property was read; it holds the constructor's
\* operation_id and deadline.
C14_Witness ==
    \E w \in DOMAIN waiters :
        LET cs == CallsOf(w)
        IN  /\ Len(cs) >= 2
            /\ \E k \in 1..Len(cs) : cs[k].fetch.raised
            /\ \E k \in 1..Len(cs) : ~cs[k].fetch.raised
            /\ seen # None
            /\ ctor[w].timeout # None
            /\ ctor[w].operation_id = "op2"
            /\ waiters[w].operation_id = "op2"
            /\ waiters[w].deadline = Some(CtorDeadline(w))

(* ---- C15 ---- *)

\* the waiter w has had a call whose fetch succeeded
HasFetched(w) ==
    \E i \in 1..Len(calls) : calls[i].w = w /\ ~calls[i].fetch.raised

\* C15: a read of the operation property sends no Get and changes no waiter,
\* it gives the stored snapshot, which is None while no fetch of the waiter
\* has succeeded; and the snapshot of a waiter changes only in a __next__
\* call on that waiter whose fetch succeeded, to the value fetched.
C15_AccessorReadOnly ==
    /\ [][seen' # seen =>
            /\ waiters' = waiters
            /\ calls' = calls
            /\ now' = now
            /\ seen'[1].value = waiters[seen'[1].w].operation
            /\ ~HasFetched(seen'[1].w) => seen'[1].value = None]_vars
    /\ [][\A w \in DOMAIN waiters :
            waiters'[w].operation # waiters[w].operation =>
                /\ Len(calls') = Len(calls) + 1
                /\ calls'[Len(calls')].w = w
                /\ ~calls'[Len(calls')].fetch.raised
                /\ waiters'[w].operation = calls'[Len(calls')].fetch.value]_vars

\* C15 witness: the operation property was read after two successful fetches
\* and gave the snapshot of the second, which the waiter still holds.
C15_Witness ==
    /\ seen # None
    /\ Len(calls) >= 2
    /\ ~calls[Len(calls)].fetch.raised
    /\ ~calls[Len(calls) - 1].fetch.raised
    /\ calls[Len(calls)].fetch.value # None
    /\ calls[Len(calls)].fetch.value # calls[Len(calls) - 1].fetch.value
    /\ seen[1].value = calls[Len(calls)].fetch.value
    /\ operation(waiters[seen[1].w]) = seen[1].value

(* ---- C16 ---- *)

\* C16: a __next__ call on one waiter changes no other waiter, and a waiter
\* that was never polled has an unset snapshot and the deadline of its own
\* construction, however often another waiter for the same operation was
\* polled.
C16_WaitersShareNothing ==
    /\ [][Len(calls') = Len(calls) + 1 =>
            \A v \in DOMAIN waiters :
                v # calls'[Len(calls')].w => waiters'[v] = waiters[v]]_vars
    /\ [](\A v \in DOMAIN waiters :
            CallsOf(v) = <<>> =>
                /\ operation(waiters[v]) = None
                /\ waiters[v].deadline # None =>
                      waiters[v].deadline = Some(CtorDeadline(v)))

\* C16 witness: of the two waiters of wait_for_operation, made for the same
\* operation, one was polled twice and holds a snapshot, the other was never
\* polled and holds none.
C16_Witness ==
    /\ {"waiter", "iter"} \subseteq DOMAIN waiters
    /\ waiters["waiter"].operation_id = waiters["iter"].operation_id
    /\ Len(CallsOf("iter")) >= 2
    /\ CallsOf("waiter") = <<>>
    /\ operation(waiters["iter"]) # None
    /\ operation(waiters["waiter"]) = None

(* ---- C17 ---- *)

\* C17: in wait_for_operation a poll that is followed by anything is followed
\* by the write (with a sink) or by the sleep (without), the write by the
\* flush, the flush by the sleep and the sleep by the next poll; every poll
\* but the first comes right after a sleep and starts SleepSeconds after the
\* poll before it ended; and at the return the sleeps are as many as the
\* non-terminal polls, the terminal poll being the last thing done.
C17_SleepBetweenPolls ==
    pc # "idle" =>
        LET sink == args[1].print_to_stream
            cs == CallsOf("iter")
        IN  /\ \A i \in 1..Len(trace) :
                  /\ (trace[i] = "poll" /\ i > 1) => trace[i - 1] = "sleep"
                  /\ (trace[i] = "poll" /\ i < Len(trace)) =>
                        trace[i + 1] = (IF sink THEN "write" ELSE "sleep")
                  /\ (trace[i] = "write" /\ i < Len(trace)) => trace[i + 1] = "flush"
                  /\ (trace[i] = "flush" /\ i < Len(trace)) => trace[i + 1] = "sleep"
                  /\ (trace[i] = "sleep" /\ i < Len(trace)) => trace[i + 1] = "poll"
                  /\ trace[i] = "sleep" =>
                        (i > 1 /\ trace[i - 1] = (IF sink THEN "flush" ELSE "poll"))
            /\ \A k \in 2..Len(cs) : cs[k].start = cs[k - 1].end + SleepSeconds
            /\ pc \in {"return", "returned"} =>
                  /\ Count(trace, "sleep") = NonTerminalPolls
                  /\ Count(trace, "poll") = NonTerminalPolls + 1
                  /\ trace[Len(trace)] = "poll"

\* C17 witness: wait_for_operation returned, with a sink, after two or more
\* non-terminal polls and as many sleeps.
C17_Witness ==
    /\ pc = "returned"
    /\ args[1].print_to_stream
    /\ NonTerminalPolls >= 2
    /\ Count(trace, "sleep") = NonTerminalPolls
    /\ Count(trace, "flush") = NonTerminalPolls

(* ---- C18 ---- *)

\* C18: a waiter made with a negative timeout has a deadline before the clock
\* of its construction, and each of its calls whose fetch succeeds, the first
\* one included, sends one Get and raises StopIteration whatever was fetched;
\* a waiter has no deadline exactly when its timeout is None or 0.
C18_NegativeTimeout ==
    \A w \in DOMAIN waiters :
        LET cs == CallsOf(w)
            t == ctor[w].timeout
        IN  /\ (waiters[w].deadline = None) <=> (t = None \/ t = Some(0))
            /\ (t # None /\ t[1] < 0) =>
                  /\ waiters[w].deadline = Some(CtorDeadline(w))
                  /\ waiters[w].deadline[1] < ctor[w].clock
                  /\ \A k \in 1..Len(cs) :
                        /\ Len(cs[k].gets) = 1
                        /\ ~cs[k].fetch.raised => cs[k].out = "StopIteration"

\* C18 witness: the first call on a waiter made with timeout -1 fetched a
\* snapshot with done = false and raised StopIteration.
C18_Witness ==
    \E w \in DOMAIN waiters :
        LET cs == CallsOf(w)
        IN  /\ ctor[w].timeout = Some(-1)
            /\ Len(cs) >= 1
            /\ ~cs[1].fetch.raised
            /\ cs[1].fetch.value # None
            /\ ~FetchedDone(cs[1].fetch.value)
            /\ cs[1].out = "StopIteration"

(* ---- C19 ---- *)

\* the Get requests sent so far, over all waiters: (call, request) positions
AllGets == {p \in (1..Len(calls)) \X (1..2) : p[2] <= Len(calls[p[1]].gets)}

\* C19: when wait_for_operation leaves its loop, the Gets sent over both of
\* its waiters are one more than the non-terminal polls, all of them sent by
\* the loop's waiter and all for the operation_id passed to the call.
C19_FetchCount ==
    pc \in {"return", "returned"} =>
        /\ Cardinality(AllGets) = NonTerminalPolls + 1
        /\ CallsOf("waiter") = <<>>
        /\ \A p \in AllGets : calls[p[1]].gets[p[2]] = args[1].operation_id

\* C19 witness: wait_for_operation, called for "op2", returned after two or
\* more non-terminal polls.
C19_Witness ==
    /\ pc = "returned"
    /\ args[1].operation_id = "op2"
    /\ NonTerminalPolls >= 2
    /\ Cardinality(AllGets) = NonTerminalPolls + 1

====
